---------------------------- MODULE Spec2Model ----------------------------
(***************************************************************************)
(* Slack inbox synchronisation: the Listener (helpers/slack_listener.py),  *)
(* the Acknowledger (helpers/slack_acknowledger.py) and the files they     *)
(* share (slack_inbox.json, slack_last_sync.txt, slack_acknowledged.json). *)
(*                                                                         *)
(* Timestamps are strings of decimal digits, written as sequences of       *)
(* digits: "10" is <<1, 0>>.  The code compares them as strings; the       *)
(* provider bounds a history fetch by their numeric value.  Message texts  *)
(* are sequences of words and the substring test of the code is a test for *)
(* a contiguous run of words.                                              *)
(***************************************************************************)
EXTENDS Naturals, Sequences, FiniteSets, Bags

(***************************************************************************)
(* Bounds of the model.                                                    *)
(***************************************************************************)
MaxEvents == 4      \* events the provider can ever hold (a prefix of AllEvents)
MaxBatch == 2       \* longest page a history fetch returns in the model
MaxInbox == 3       \* longest inbox document the model lets grow
MaxLen == 2         \* longest inbox drawn as an input of the pending rule
MaxStore == 2       \* longest inbox the interleaved writers let grow
MaxWriters == 2     \* writers that are between their load and their save at once
MaxPid == 4         \* process ids the operating system hands out
MaxFiles == 2       \* file records one message carries

(***************************************************************************)
(* Program constants.                                                      *)
(***************************************************************************)
PollLimit == 20     \* limit= of the poll cycle's conversations_history call
SyncLimit == 50     \* limit= default of sync_history

VARIABLES
    channel,        \* provider: the events the channel holds
    reactions,      \* provider: <<ts, name>> of the reactions the bot has set
    inflight,       \* Socket Mode: <<kind, event>> dispatched, not yet handled
    inboxFile,      \* slack_inbox.json: the sequence of message records
    cursorFile,     \* slack_last_sync.txt: a timestamp, <<>> when absent
    ledgerFile,     \* slack_acknowledged.json: the bag of the "acknowledged" list
    lpc,            \* Listener: "stopped", "sleep", "batch" or "socket"
    known_ts,       \* Listener poll loop: known_ts
    last_ts,        \* Listener poll loop: last_ts
    messages,       \* Listener poll loop: the fetched page, newest first
    pos,            \* Listener poll loop: entries of the page still to process
    apc,            \* Acknowledger: "stopped", "idle", "acking" or "crashed"
    pending,        \* Acknowledger: the rest of the pending list of this cycle
    acknowledged,   \* Acknowledger: the cycle's local set acknowledged
    new_count,      \* Acknowledger: the cycle's new_count
    fed,            \* history: per timestamp, how often a finished batch held it (0..2)
    ackCalls,       \* history: per timestamp, reactions_add calls of the Acknowledger (0..2)
    ackOk,          \* history: timestamps whose reactions_add call was confirmed
    ackAgain,       \* history: timestamps whose call was answered already_reacted
    inboxKind,      \* slack_inbox.json: "json", "malformed" or "undecodable" content
    rmw,            \* per writer of the inbox: where it is, and the list it loaded
    runs,           \* per run mode: the tokens it was started with and how it went
    sup,            \* Supervisor: platform, slack_bot_pids.json, processes, signals sent
    dl              \* File download helper: where it is, its pending list, its last download

vars == <<channel, reactions, inflight, inboxFile, cursorFile, ledgerFile,
          lpc, known_ts, last_ts, messages, pos,
          apc, pending, acknowledged, new_count, fed, ackCalls, ackOk, ackAgain,
          inboxKind, rmw, runs, sup, dl>>

providerVars == <<channel, reactions, inflight>>
listenerVars == <<lpc, known_ts, last_ts, messages, pos>>
ackVars == <<apc, pending, acknowledged, new_count>>
historyAck == <<ackCalls, ackOk, ackAgain>>
storeVars == <<inboxKind, rmw>>
extVars == <<storeVars, runs, sup, dl>>

(***************************************************************************)
(* Strings of digits.                                                      *)
(***************************************************************************)
Min(a, b) == IF a <= b THEN a ELSE b

\* Python's < on str, for strings of digits: the first differing character
\* decides, and a proper prefix is smaller.
StrLess(a, b) ==
    \E k \in 0..Min(Len(a), Len(b)) :
        /\ \A j \in 1..k : a[j] = b[j]
        /\ \/ k = Len(a) /\ k < Len(b)
           \/ k < Len(a) /\ k < Len(b) /\ a[k + 1] < b[k + 1]

\* The number a string of digits denotes (the provider's view of a timestamp).
RECURSIVE NumVal(_)
NumVal(s) == IF s = <<>> THEN 0
             ELSE 10 * NumVal(SubSeq(s, 1, Len(s) - 1)) + s[Len(s)]

\* Python's max() over a non-empty sequence of strings.
RECURSIVE StrMaxFrom(_, _, _)
StrMaxFrom(seq, i, best) ==
    IF i > Len(seq) THEN best
    ELSE StrMaxFrom(seq, i + 1, IF StrLess(best, seq[i]) THEN seq[i] ELSE best)

StrMax(seq) == StrMaxFrom(seq, 2, seq[1])

\* Python's "pat in text" on the word sequences.
Contains(text, pat) ==
    \E i \in 1..(Len(text) + 1) :
        /\ i + Len(pat) - 1 <= Len(text)
        /\ SubSeq(text, i, i + Len(pat) - 1) = pat

(***************************************************************************)
(* The provider's events.  An event carries the fields the code reads:     *)
(* ts, user, text, bot_id and subtype ("" when the key is absent), and     *)
(* whether the text mentions the bot (the provider then also dispatches an *)
(* app_mention event for it).  The message of another integration may      *)
(* mention the bot as well as a user's.                                    *)
(***************************************************************************)
Event(ts, user, text, bot_id, subtype, mention) ==
    [ts |-> ts, user |-> user, text |-> text, bot_id |-> bot_id,
     subtype |-> subtype, mention |-> mention]

AllEvents ==
    << Event(<<5>>, "U1", <<"hi">>, "", "", TRUE),
       Event(<<9>>, "U2", <<"U2", "has", "joined", "the", "channel">>, "", "channel_join", FALSE),
       Event(<<1, 0>>, "U1", <<"deploy", "done">>, "", "", FALSE),
       Event(<<7>>, "", <<"build", "ok">>, "B1", "bot_message", TRUE),
       Event(<<1, 2>>, "U2", <<"U2", "has", "renamed", "the", "channel", "to", "ops">>, "", "channel_name", FALSE),
       Event(<<1, 1>>, "U1", <<"has", "joined">>, "", "", FALSE) >>

Events == { AllEvents[i] : i \in 1..Min(MaxEvents, Len(AllEvents)) }

Timestamps == { e.ts : e \in Events }

ZeroTs == <<0>>         \* the "0" the poll loop starts from
NoCursor == <<>>        \* slack_last_sync.txt absent (or empty)


(***************************************************************************)
(* Inbox Store (slack_listener.py).                                        *)
(***************************************************************************)
\* The record add_message builds.  The wall-clock received_at and the
\* channel label, which no operation below reads, are left out.
Message(id, user, text, timestamp) ==
    [id |-> id, user |-> user, text |-> text, timestamp |-> timestamp,
     read |-> FALSE]

\* add_message: load the document, append a record with id = len + 1, save.
add_messageDrops(inbox, user, text, timestamp) ==
    <<Message(Len(inbox) + 1, user, text, timestamp)>>
add_messageSameId(inbox, user, text, timestamp) ==
    Append(inbox, Message(Len(inbox), user, text, timestamp))
add_message(inbox, user, text, timestamp) ==
    Append(inbox, Message(Len(inbox) + 1, user, text, timestamp))

\* get_known_timestamps: the truthy timestamps of the document.
get_known_timestamps(inbox) ==
    { inbox[i].timestamp : i \in 1..Len(inbox) } \ {<<>>}

\* get_last_sync_ts() or "0"
get_last_sync_ts_or_zero(file) == IF file = NoCursor THEN ZeroTs ELSE file

\* How many records of the document carry the timestamp.
Count(inbox, ts) == Cardinality({ i \in 1..Len(inbox) : inbox[i].timestamp = ts })

(***************************************************************************)
(* The provider's history call.                                            *)
(***************************************************************************)
\* The events a fetch with oldest= may return: those newer than oldest, by
\* the provider's numeric reading of the timestamp.
InRange(oldest) == { e \in channel : NumVal(e.ts) > NumVal(oldest) }

\* The pages the provider may answer with for the event set S: newest first
\* (an event may be replayed, so not strictly), at most `limit` entries, and
\* a page never skips an event newer than one it holds: it is the newest
\* end of S, cut where the provider chooses.
Pages(S, limit) ==
    { p \in UNION { [1..n -> S] : n \in 0..Min(limit, MaxBatch) } :
        /\ \A i \in 1..(Len(p) - 1) : NumVal(p[i].ts) >= NumVal(p[i + 1].ts)
        /\ (p = <<>>) => (S = {})
        /\ \A e \in S : \A i \in 1..Len(p) :
              NumVal(e.ts) > NumVal(p[i].ts) => \E j \in 1..Len(p) : p[j] = e }

\* The test that skips bot messages (poll loop, sync_history, handle_message).
IsBot(e) == e.bot_id # "" \/ e.subtype = "bot_message"

\* "if ts in known_ts: continue"
IsKnownMutant(ts, known) == FALSE
IsKnown(ts, known) == ts \in known

\* The timestamps of a page, as a sequence.
TsOf(page) == [i \in 1..Len(page) |-> page[i].ts]

\* How often the timestamp occurs in the page.
Occurs(page, ts) == Cardinality({ i \in 1..Len(page) : page[i].ts = ts })

\* The history count of fed batches, which saturates at 2.
Feed(f, page) ==
    [t \in Timestamps |->
        IF \E i \in 1..Len(page) : page[i].ts = t /\ ~IsBot(page[i])
        THEN Min(2, f[t] + Occurs(page, t)) ELSE f[t]]

(***************************************************************************)
(* The provider: a user, the bot or the system posts the next event.  The  *)
(* provider's timestamps grow.  With a Socket Mode Listener connected, the *)
(* event is dispatched to it.                                              *)
(***************************************************************************)
Dispatch(e) ==
    {<<"message", e>>} \cup (IF e.mention THEN {<<"app_mention", e>>} ELSE {})

Post ==
    \E e \in Events \ channel :
        /\ \A o \in channel : NumVal(o.ts) < NumVal(e.ts)
        /\ channel' = channel \cup {e}
        /\ inflight' = IF lpc = "socket" THEN inflight \cup Dispatch(e) ELSE inflight
        /\ UNCHANGED <<reactions, inboxFile, cursorFile, ledgerFile,
                       listenerVars, ackVars, fed, historyAck>>
        /\ UNCHANGED extVars

(***************************************************************************)
(* Listener, poll mode: poll_for_messages.                                 *)
(***************************************************************************)
\* Lines 267-272: the loop's state before the first cycle.
PollStart ==
    /\ lpc = "stopped"
    /\ known_ts' = get_known_timestamps(inboxFile)
    /\ last_ts' = get_last_sync_ts_or_zero(cursorFile)
    /\ lpc' = "sleep"
    /\ UNCHANGED <<providerVars, inboxFile, cursorFile, ledgerFile,
                   messages, pos, ackVars, fed, historyAck>>
    /\ UNCHANGED extVars

\* Lines 278-285: the fetch succeeds with some page.
PollFetch ==
    /\ lpc = "sleep"
    /\ \E page \in Pages(InRange(last_ts), PollLimit) :
          /\ messages' = page
          /\ pos' = Len(page)
    /\ lpc' = "batch"
    /\ UNCHANGED <<providerVars, inboxFile, cursorFile, ledgerFile,
                   known_ts, last_ts, ackVars, fed, historyAck>>
    /\ UNCHANGED extVars

\* Lines 335-339: the fetch raises; the error is logged and the loop sleeps.
PollFetchFails ==
    /\ lpc = "sleep"
    /\ UNCHANGED vars

\* Lines 288-316: one pass of the for loop, over reversed(messages).
PollStep ==
    /\ lpc = "batch"
    /\ pos >= 1
    /\ LET msg == messages[pos] IN
         IF IsBot(msg) \/ IsKnown(msg.ts, known_ts)
         THEN UNCHANGED <<inboxFile, known_ts, reactions>>
         ELSE /\ Len(inboxFile) < MaxInbox
              /\ inboxFile' = add_message(inboxFile, msg.user, msg.text, msg.ts)
              /\ known_ts' = known_ts \cup {msg.ts}
              /\ \/ reactions' = reactions \cup {<<msg.ts, "eyes">>}
                 \/ UNCHANGED reactions      \* reactions_add raised: pass
    /\ pos' = pos - 1
    /\ UNCHANGED <<channel, inflight, cursorFile, ledgerFile, lpc, last_ts,
                   messages, ackVars, fed, historyAck>>
    /\ UNCHANGED extVars

\* "if latest_ts > last_ts"
CursorAdvancesMutant(latest_ts, last) == TRUE
CursorAdvances(latest_ts, last) == StrLess(last, latest_ts)

\* Lines 318-339: the cursor update that ends the cycle, then the sleep.
PollFinish ==
    /\ lpc = "batch"
    /\ pos = 0
    /\ IF messages # <<>> /\ CursorAdvances(StrMax(TsOf(messages)), last_ts)
       THEN /\ last_ts' = StrMax(TsOf(messages))
            /\ cursorFile' = StrMax(TsOf(messages))
       ELSE UNCHANGED <<last_ts, cursorFile>>
    /\ fed' = Feed(fed, messages)
    /\ messages' = <<>>
    /\ lpc' = "sleep"
    /\ UNCHANGED <<providerVars, inboxFile, ledgerFile, known_ts, pos,
                   ackVars, historyAck>>
    /\ UNCHANGED extVars

\* The receipt reactions made by the time add_message raises: the
\* reactions_add call (lines 313-316 of the poll loop, 391-395 of
\* handle_message) comes after add_message, so none.
ReceiptBeforeStoreMutant(ts, name) == {<<ts, name>>}
ReceiptBeforeStore(ts, name) == {}

\* Lines 302-307 raise inside the for loop: add_message fails while loading
\* or writing the inbox (an unreadable file, a full disk).  The exception
\* leaves the loop and is caught at line 335; the error is logged, the rest
\* of the batch and the cursor update are skipped, and the loop sleeps.
PollStepRaises ==
    /\ lpc = "batch"
    /\ pos >= 1
    /\ ~IsBot(messages[pos])
    /\ ~IsKnown(messages[pos].ts, known_ts)
    /\ reactions' = reactions \cup ReceiptBeforeStore(messages[pos].ts, "eyes")
    /\ lpc' = "sleep"
    /\ messages' = <<>>
    /\ pos' = 0
    /\ UNCHANGED <<channel, inflight, inboxFile, cursorFile, ledgerFile, known_ts,
                   last_ts, ackVars, fed, historyAck>>
    /\ UNCHANGED extVars

\* Line 336 raises: the cycle's exception (of the fetch, or of add_message)
\* was caught, and log() itself fails writing slack_listener.log (lines
\* 59-60: the same directory, the same disk).  The exception leaves the
\* except clause; the outer try catches only KeyboardInterrupt, so
\* poll_for_messages and the process end with the traceback.
PollLogRaises ==
    /\ \/ lpc = "sleep"
       \/ /\ lpc = "batch"
          /\ pos >= 1
          /\ ~IsBot(messages[pos])
          /\ ~IsKnown(messages[pos].ts, known_ts)
    /\ lpc' = "crashed"
    /\ known_ts' = {}
    /\ last_ts' = ZeroTs
    /\ messages' = <<>>
    /\ pos' = 0
    /\ UNCHANGED <<providerVars, inboxFile, cursorFile, ledgerFile,
                   ackVars, fed, historyAck>>
    /\ UNCHANGED extVars

\* The process ends (Ctrl+C, or the Supervisor's SIGTERM) wherever it is;
\* its local state is gone and a Socket Mode connection drops its events.
ListenerStop ==
    /\ lpc # "stopped"
    /\ lpc' = "stopped"
    /\ known_ts' = {}
    /\ last_ts' = ZeroTs
    /\ messages' = <<>>
    /\ pos' = 0
    /\ inflight' = {}
    /\ UNCHANGED <<channel, reactions, inboxFile, cursorFile, ledgerFile,
                   ackVars, fed, historyAck>>
    /\ UNCHANGED extVars

(***************************************************************************)
(* Listener, history sync: sync_history.  It runs as the one-shot --sync   *)
(* command and at the start of Socket Mode.                                *)
(***************************************************************************)
\* Lines 170-199: the for loop over reversed(messages), entries i down to 1.
RECURSIVE SyncLoopNewestFirst(_, _, _, _)
SyncLoopNewestFirst(inbox, known, page, i) ==
    IF i = 0 THEN inbox
    ELSE LET msg == page[Len(page) - i + 1] IN
         IF IsBot(msg) \/ IsKnown(msg.ts, known)
         THEN SyncLoopNewestFirst(inbox, known, page, i - 1)
         ELSE SyncLoopNewestFirst(add_message(inbox, msg.user, msg.text, msg.ts),
                                  known \cup {msg.ts}, page, i - 1)

RECURSIVE SyncLoop(_, _, _, _)
SyncLoop(inbox, known, page, i) ==
    IF i = 0 THEN inbox
    ELSE LET msg == page[i] IN
         IF IsBot(msg) \/ IsKnown(msg.ts, known)
         THEN SyncLoop(inbox, known, page, i - 1)
         ELSE SyncLoop(add_message(inbox, msg.user, msg.text, msg.ts),
                       known \cup {msg.ts}, page, i - 1)

\* Lines 158-208 for the page the fetch returned: the loop, then the cursor
\* is set to the timestamp of the page's first entry.
SyncEffect(page) ==
    /\ Len(SyncLoop(inboxFile, get_known_timestamps(inboxFile), page, Len(page))) <= MaxInbox
    /\ inboxFile' = SyncLoop(inboxFile, get_known_timestamps(inboxFile), page, Len(page))
    /\ cursorFile' = IF page # <<>> /\ page[1].ts # <<>> THEN page[1].ts ELSE cursorFile
    /\ fed' = Feed(fed, page)

\* python slack_listener.py --sync.  (A fetch that raises is logged and
\* returns 0, lines 210-212: nothing changes.)
sync_history ==
    /\ \E page \in Pages(channel, SyncLimit) : SyncEffect(page)
    /\ UNCHANGED <<providerVars, ledgerFile, listenerVars, ackVars, historyAck>>
    /\ UNCHANGED extVars

(***************************************************************************)
(* Listener, Socket Mode: main starts with a history sync (unless          *)
(* --no-sync) and then serves the handlers of create_app.                  *)
(***************************************************************************)
SocketStart ==
    /\ lpc = "stopped"
    /\ \/ \E page \in Pages(channel, SyncLimit) : SyncEffect(page)
       \/ UNCHANGED <<inboxFile, cursorFile, fed>>      \* --no-sync, or the sync failed
    /\ lpc' = "socket"
    /\ UNCHANGED <<providerVars, ledgerFile, known_ts, last_ts, messages, pos,
                   ackVars, historyAck>>
    /\ UNCHANGED extVars

\* The receipt reaction of the handlers: set, or the call raised (logged).
ReceiptReaction(ts) ==
    \/ reactions' = reactions \cup {<<ts, "white_check_mark">>}
    \/ UNCHANGED reactions

\* Lines 357-395.
handle_message ==
    /\ lpc = "socket"
    /\ \E e \in Events :
          /\ <<"message", e>> \in inflight
          /\ inflight' = inflight \ {<<"message", e>>}
          /\ IF IsBot(e)
             THEN UNCHANGED <<inboxFile, reactions>>
             ELSE /\ Len(inboxFile) < MaxInbox
                  /\ inboxFile' = add_message(inboxFile, e.user, e.text, e.ts)
                  /\ ReceiptReaction(e.ts)
    /\ UNCHANGED <<channel, cursorFile, ledgerFile, listenerVars, ackVars,
                   fed, historyAck>>
    /\ UNCHANGED extVars

\* Lines 398-432.
handle_mention ==
    /\ lpc = "socket"
    /\ \E e \in Events :
          /\ <<"app_mention", e>> \in inflight
          /\ inflight' = inflight \ {<<"app_mention", e>>}
          /\ Len(inboxFile) < MaxInbox
          /\ inboxFile' = add_message(inboxFile, e.user, e.text, e.ts)
          /\ ReceiptReaction(e.ts)
    /\ UNCHANGED <<channel, cursorFile, ledgerFile, listenerVars, ackVars,
                   fed, historyAck>>
    /\ UNCHANGED extVars

\* Lines 383-388 raise: add_message fails in handle_message; the handler
\* ends with the exception, which the framework reports, before the
\* reaction call.
handle_messageRaises ==
    /\ lpc = "socket"
    /\ \E e \in Events :
          /\ <<"message", e>> \in inflight
          /\ ~IsBot(e)
          /\ inflight' = inflight \ {<<"message", e>>}
          /\ reactions' = reactions \cup ReceiptBeforeStore(e.ts, "white_check_mark")
    /\ UNCHANGED <<channel, inboxFile, cursorFile, ledgerFile, listenerVars, ackVars,
                   fed, historyAck>>
    /\ UNCHANGED extVars

(***************************************************************************)
(* The consumers of the inbox: whatever flips read, and the Listener's     *)
(* --mark-read and --clear commands.                                       *)
(***************************************************************************)
\* The external consumer marks one message read.
MarkRead ==
    /\ \E i \in 1..Len(inboxFile) :
          /\ ~inboxFile[i].read
          /\ inboxFile' = [inboxFile EXCEPT ![i].read = TRUE]
    /\ UNCHANGED <<providerVars, cursorFile, ledgerFile, listenerVars, ackVars,
                   fed, historyAck>>
    /\ UNCHANGED extVars

\* Lines 107-112.
mark_all_read ==
    /\ inboxFile' = [i \in 1..Len(inboxFile) |-> [inboxFile[i] EXCEPT !.read = TRUE]]
    /\ UNCHANGED <<providerVars, cursorFile, ledgerFile, listenerVars, ackVars,
                   fed, historyAck>>
    /\ UNCHANGED extVars

(***************************************************************************)
(* Acknowledgment Ledger and the Acknowledger (slack_acknowledger.py).     *)
(***************************************************************************)
JoinText == <<"has", "joined", "the", "channel">>
RenameText == <<"has", "renamed", "the", "channel">>

\* Line 105: the texts that are never acknowledged.
IsSystemMessageMutant(text) == Contains(text, RenameText)
IsSystemMessage(text) == Contains(text, JoinText) \/ Contains(text, RenameText)

\* Lines 99-100: "if ts and ts in acknowledged"
AlreadyAcknowledgedMutant(ts, acked) == FALSE
AlreadyAcknowledged(ts, acked) == ts # <<>> /\ ts \in acked

\* load_acknowledged: the set of the file's "acknowledged" list.
load_acknowledgedMutant(file) == {}
load_acknowledged(file) == BagToSet(file)

\* save_acknowledged: the list of the set, each member once.
save_acknowledged(timestamps) == SetToBag(timestamps)

\* Lines 92-110: the loop over the inbox from record i on.
RECURSIVE PendingFrom(_, _, _)
PendingFrom(inbox, acked, i) ==
    IF i > Len(inbox) THEN <<>>
    ELSE LET msg == inbox[i]
             rest == PendingFrom(inbox, acked, i + 1)
         IN  IF ~msg.read THEN rest
             ELSE IF AlreadyAcknowledged(msg.timestamp, acked) THEN rest
             ELSE IF IsSystemMessage(msg.text) THEN rest
             ELSE <<msg>> \o rest

get_pending_acknowledgments(inbox, file) ==
    PendingFrom(inbox, load_acknowledged(file), 1)

\* What reactions_add answers for a timestamp: the reaction is set ("ok"),
\* it was there already, or the call fails some other way.
Outcomes(ts) ==
    (IF <<ts, "white_check_mark">> \in reactions THEN {"already_reacted"} ELSE {"ok"})
        \cup {"api_error", "network_error"}

\* The answers that count as a confirmed acknowledgment.
Confirmed == {"ok", "already_reacted"}

\* Lines 113-131: True, False, or the exception leaves the function.
acknowledge_messageNoRetry(outcome) ==
    CASE outcome = "ok" -> "True"
      [] outcome = "already_reacted" -> "raise"
      [] OTHER -> "False"
acknowledge_messageLenient(outcome) == "True"
acknowledge_messageNever(outcome) == "False"
acknowledge_message(outcome) ==
    CASE outcome = "ok" -> "True"
      [] outcome = "already_reacted" -> "True"
      [] outcome = "api_error" -> "False"
      [] OTHER -> "False"

\* run_continuous, lines 170-183, or main with --once.
AckStart ==
    /\ apc = "stopped"
    /\ apc' = "idle"
    /\ UNCHANGED <<providerVars, inboxFile, cursorFile, ledgerFile, listenerVars,
                   pending, acknowledged, new_count, fed, historyAck>>
    /\ UNCHANGED extVars

\* process_acknowledgments, lines 136-142: nothing pending returns 0.
AckScan ==
    /\ apc = "idle"
    /\ LET p == get_pending_acknowledgments(inboxFile, ledgerFile) IN
         IF p = <<>>
         THEN UNCHANGED <<apc, pending, acknowledged, new_count>>
         ELSE /\ pending' = p
              /\ acknowledged' = load_acknowledged(ledgerFile)
              /\ new_count' = 0
              /\ apc' = "acking"
    /\ UNCHANGED <<providerVars, inboxFile, cursorFile, ledgerFile, listenerVars,
                   fed, historyAck>>
    /\ UNCHANGED extVars

\* process_acknowledgments, lines 144-160: one pass of the for loop, with
\* the provider answering `outcome`.
AckCall(outcome) ==
    /\ apc = "acking"
    /\ pending # <<>>
    /\ LET ts == Head(pending).timestamp IN
         IF ts = <<>>
         THEN /\ pending' = Tail(pending)       \* "if not ts: continue"
              /\ UNCHANGED <<reactions, ackCalls, ackOk, ackAgain, acknowledged,
                             new_count, apc>>
         ELSE
         /\ outcome \in Outcomes(ts)
         /\ reactions' = IF outcome = "ok"
                         THEN reactions \cup {<<ts, "white_check_mark">>}
                         ELSE reactions
         /\ ackCalls' = [ackCalls EXCEPT ![ts] = Min(2, @ + 1)]
         /\ ackOk' = IF outcome \in Confirmed THEN ackOk \cup {ts} ELSE ackOk
         /\ ackAgain' = IF outcome = "already_reacted" THEN ackAgain \cup {ts}
                        ELSE ackAgain
         /\ CASE acknowledge_message(outcome) = "True" ->
                   /\ acknowledged' = acknowledged \cup {ts}
                   /\ new_count' = new_count + 1
                   /\ pending' = Tail(pending)
                   /\ UNCHANGED apc
              [] acknowledge_message(outcome) = "False" ->
                   /\ pending' = Tail(pending)
                   /\ UNCHANGED <<acknowledged, new_count, apc>>
              [] OTHER ->    \* the exception leaves run_continuous: the process ends
                   /\ apc' = "crashed"
                   /\ pending' = <<>>
                   /\ acknowledged' = {}
                   /\ new_count' = 0
    /\ UNCHANGED <<channel, inflight, inboxFile, cursorFile, ledgerFile,
                   listenerVars, fed>>
    /\ UNCHANGED extVars

AckOne == \E outcome \in {"ok", "already_reacted", "api_error", "network_error"} :
              AckCall(outcome)

\* The pass in which the provider confirms the acknowledgment.
AckConfirmed == \E outcome \in Confirmed : AckCall(outcome)

\* process_acknowledgments, lines 162-165, then the sleep of run_continuous.
AckFinishClearsInbox ==
    /\ apc = "acking"
    /\ pending = <<>>
    /\ ledgerFile' = IF new_count > 0 THEN save_acknowledged(acknowledged)
                     ELSE ledgerFile
    /\ inboxFile' = <<>>
    /\ apc' = "idle"
    /\ acknowledged' = {}
    /\ new_count' = 0
    /\ UNCHANGED <<providerVars, cursorFile, listenerVars, pending,
                   fed, historyAck>>
    /\ UNCHANGED extVars
AckFinishPerMessage ==
    /\ apc = "acking"
    /\ ledgerFile' = IF new_count > 0 THEN save_acknowledged(acknowledged)
                     ELSE ledgerFile
    /\ IF pending = <<>>
       THEN apc' = "idle" /\ acknowledged' = {} /\ new_count' = 0
       ELSE UNCHANGED <<apc, acknowledged, new_count>>
    /\ UNCHANGED <<providerVars, inboxFile, cursorFile, listenerVars, pending,
                   fed, historyAck>>
    /\ UNCHANGED extVars
AckFinish ==
    /\ apc = "acking"
    /\ pending = <<>>
    /\ ledgerFile' = IF new_count > 0 THEN save_acknowledged(acknowledged)
                     ELSE ledgerFile
    /\ apc' = "idle"
    /\ acknowledged' = {}
    /\ new_count' = 0
    /\ UNCHANGED <<providerVars, inboxFile, cursorFile, listenerVars, pending,
                   fed, historyAck>>
    /\ UNCHANGED extVars

\* save_acknowledged, lines 83-84, cut short: open(ACK_FILE, "w") has
\* truncated the file and the process is terminated before json.dump has
\* written it.  What is left is no JSON; load_acknowledged reads it as the
\* empty set (lines 76-77), as it reads an absent file.
save_acknowledgedKilled ==
    /\ apc = "acking"
    /\ pending = <<>>
    /\ new_count > 0
    /\ ledgerFile' = EmptyBag
    /\ apc' = "stopped"
    /\ acknowledged' = {}
    /\ new_count' = 0
    /\ UNCHANGED <<providerVars, inboxFile, cursorFile, listenerVars, pending,
                   fed, historyAck>>
    /\ UNCHANGED extVars

\* process_acknowledgments, lines 136 and 141: load_inbox or
\* load_acknowledged raises something else than json.JSONDecodeError (the
\* file cannot be opened or decoded, or its document is not the expected
\* list or dictionary).  run_continuous, lines 185-199, catches only
\* KeyboardInterrupt: the exception ends the process with a traceback.
AckLoadRaises ==
    /\ apc = "idle"
    /\ apc' = "crashed"
    /\ UNCHANGED <<providerVars, inboxFile, cursorFile, ledgerFile, listenerVars,
                   pending, acknowledged, new_count, fed, historyAck>>
    /\ UNCHANGED extVars

\* process_acknowledgments, line 163: save_acknowledged raises OSError (the
\* file cannot be opened for writing, or the disk is full after open() has
\* truncated it).  Nothing catches it either.
save_acknowledgedRaises ==
    /\ apc = "acking"
    /\ pending = <<>>
    /\ new_count > 0
    /\ ledgerFile' \in {ledgerFile, EmptyBag}
    /\ apc' = "crashed"
    /\ acknowledged' = {}
    /\ new_count' = 0
    /\ UNCHANGED <<providerVars, inboxFile, cursorFile, listenerVars, pending,
                   fed, historyAck>>
    /\ UNCHANGED extVars

\* slack_acknowledger.py --status, lines 202-223: the inbox, the ledger and
\* the pending list are read and printed.
ack_show_status == UNCHANGED vars

\* The process ends (Ctrl+C, --once done, or the Supervisor's SIGTERM).
AckStop ==
    /\ apc \in {"idle", "acking"}
    /\ apc' = "stopped"
    /\ pending' = <<>>
    /\ acknowledged' = {}
    /\ new_count' = 0
    /\ UNCHANGED <<providerVars, inboxFile, cursorFile, ledgerFile, listenerVars,
                   fed, historyAck>>
    /\ UNCHANGED extVars

(***************************************************************************)
(* The Inbox Store under its writers.  Every writer loads the whole file,  *)
(* changes the list in memory and writes the whole file back; another      *)
(* process can run between the load and the save.                          *)
(***************************************************************************)
\* The callers of add_message: the running Listener, and a one-shot --sync.
Adders == {"listener", "sync"}

\* The processes that read-modify-write slack_inbox.json.
Writers == Adders \cup {"mark_all_read", "file_download"}

\* A writer between operations.
Idle == [pc |-> "idle", inbox |-> <<>>, arg |-> <<>>]

\* Another writer may load: fewer than MaxWriters hold a loaded list.
MayLoad == Cardinality({ w \in Writers : rmw[w].pc = "loaded" }) < MaxWriters

\* load_inbox, lines 63-71: json.load of the file read as UTF-8; a
\* JSONDecodeError (and an absent file) gives [].
load_inbox(kind, file) == IF kind = "json" THEN file ELSE <<>>

\* load_inbox raises: bytes that are no UTF-8 make f.read() raise
\* UnicodeDecodeError, which "except json.JSONDecodeError" does not catch.
load_inboxRaises(kind) == kind = "undecodable"

\* add_message, line 81: inbox = load_inbox(), for the event to store.
add_messageLoad(w) ==
    /\ rmw[w].pc \in {"idle", "raised"}
    /\ MayLoad
    /\ \E e \in { x \in Events : ~IsBot(x) } :
          IF load_inboxRaises(inboxKind)
          THEN rmw' = [rmw EXCEPT ![w] = [pc |-> "raised", inbox |-> <<>>, arg |-> <<>>]]
          ELSE /\ Len(load_inbox(inboxKind, inboxFile)) < MaxStore
               /\ rmw' = [rmw EXCEPT ![w] = [pc |-> "loaded",
                                            inbox |-> load_inbox(inboxKind, inboxFile),
                                            arg |-> <<e>>]]
    /\ UNCHANGED <<providerVars, inboxFile, cursorFile, ledgerFile, listenerVars,
                   ackVars, fed, historyAck, inboxKind>>
    /\ UNCHANGED runs
    /\ UNCHANGED sup
    /\ UNCHANGED dl

\* add_message, lines 83-95: the record is appended and the file written.
add_messageSave(w) ==
    /\ rmw[w].pc = "loaded"
    /\ inboxFile' = add_message(rmw[w].inbox, rmw[w].arg[1].user,
                                rmw[w].arg[1].text, rmw[w].arg[1].ts)
    /\ inboxKind' = "json"
    /\ rmw' = [rmw EXCEPT ![w] = Idle]
    /\ UNCHANGED <<providerVars, cursorFile, ledgerFile, listenerVars,
                   ackVars, fed, historyAck>>
    /\ UNCHANGED runs
    /\ UNCHANGED sup
    /\ UNCHANGED dl

\* A writer other than add_message loads the file; when the load raises,
\* its process ends with nothing changed.
WriterLoad(w) ==
    /\ rmw[w].pc = "idle"
    /\ MayLoad
    /\ IF load_inboxRaises(inboxKind)
       THEN UNCHANGED rmw
       ELSE rmw' = [rmw EXCEPT ![w] = [pc |-> "loaded",
                                      inbox |-> load_inbox(inboxKind, inboxFile),
                                      arg |-> <<>>]]
    /\ UNCHANGED <<providerVars, inboxFile, cursorFile, ledgerFile, listenerVars,
                   ackVars, fed, historyAck, inboxKind>>
    /\ UNCHANGED runs
    /\ UNCHANGED sup
    /\ UNCHANGED dl

\* mark_all_read, line 109.
mark_all_readLoad == WriterLoad("mark_all_read")

\* mark_all_read, lines 110-112.
mark_all_readSave ==
    /\ rmw["mark_all_read"].pc = "loaded"
    /\ inboxFile' = [i \in 1..Len(rmw["mark_all_read"].inbox) |->
                        [rmw["mark_all_read"].inbox[i] EXCEPT !.read = TRUE]]
    /\ inboxKind' = "json"
    /\ rmw' = [rmw EXCEPT !["mark_all_read"] = Idle]
    /\ UNCHANGED <<providerVars, cursorFile, ledgerFile, listenerVars,
                   ackVars, fed, historyAck>>
    /\ UNCHANGED runs
    /\ UNCHANGED sup
    /\ UNCHANGED dl

\* update_inbox_file_status (slack_file_download.py), line 196.
update_inbox_file_statusLoad == WriterLoad("file_download")

\* update_inbox_file_status, lines 198-207: the records add_message writes
\* carry no "files" list, so the loop changes nothing and the loaded list is
\* written back.
update_inbox_file_statusSave ==
    /\ rmw["file_download"].pc = "loaded"
    /\ inboxFile' = rmw["file_download"].inbox
    /\ inboxKind' = "json"
    /\ rmw' = [rmw EXCEPT !["file_download"] = Idle]
    /\ UNCHANGED <<providerVars, cursorFile, ledgerFile, listenerVars,
                   ackVars, fed, historyAck>>
    /\ UNCHANGED runs
    /\ UNCHANGED sup
    /\ UNCHANGED dl

\* clear_inbox, lines 115-118: save_inbox([]).
clear_inbox ==
    /\ inboxFile' = <<>>
    /\ inboxKind' = "json"
    /\ UNCHANGED <<providerVars, cursorFile, ledgerFile, listenerVars,
                   ackVars, fed, historyAck, rmw>>
    /\ UNCHANGED runs
    /\ UNCHANGED sup
    /\ UNCHANGED dl

\* save_inbox, lines 76-77, cut short: open(..., "w") has truncated the file
\* and the writer's process ends before json.dump has written it all.  What
\* is left is no JSON, and no UTF-8 when the cut falls inside a character.
save_inboxKilled(w) ==
    /\ rmw[w].pc = "loaded"
    /\ inboxFile' = <<>>
    /\ inboxKind' \in {"malformed", "undecodable"}
    /\ rmw' = [rmw EXCEPT ![w] = Idle]
    /\ UNCHANGED <<providerVars, cursorFile, ledgerFile, listenerVars,
                   ackVars, fed, historyAck>>
    /\ UNCHANGED runs
    /\ UNCHANGED sup
    /\ UNCHANGED dl

(***************************************************************************)
(* Startup of the two programs: main of slack_listener.py and of           *)
(* slack_acknowledger.py, for the run modes that need the provider.        *)
(***************************************************************************)
Modes == {"poll", "socket", "sync", "ack_once", "ack_continuous"}

\* A mode that has not been run.
NotRun == [bot |-> FALSE, app |-> FALSE, exit |-> "not_run", called |-> FALSE]

\* How a run ended (exit: "exit0", "exit1", or "running" for a loop that
\* has started) and whether it made a provider call.
Outcome(exit, called) == [exit |-> exit, called |-> called]

\* slack_listener.py --poll: main line 509, poll_for_messages lines 253-260.
main_poll(bot) ==
    IF ~bot THEN {Outcome("exit1", FALSE)}
    ELSE {Outcome("running", TRUE)}

\* slack_listener.py --sync: main lines 502-506 return 0 whatever
\* sync_history returns; sync_history lines 151-155 return 0 without a token.
main_sync(bot) ==
    IF ~bot THEN {Outcome("exit0", FALSE)}
    ELSE {Outcome("exit0", TRUE)}

\* slack_listener.py (Socket Mode): main lines 513-545; create_app may fail,
\* the startup sync is skipped with --no-sync.
main_socket(bot, app) ==
    IF ~app THEN {Outcome("exit1", FALSE)}
    ELSE IF ~bot THEN {Outcome("exit1", FALSE)}
    ELSE {Outcome("exit1", FALSE), Outcome("running", FALSE), Outcome("running", TRUE)}

\* slack_acknowledger.py --once: main lines 261-273; process_acknowledgments
\* calls the provider when something is pending.
main_ack_once(bot) ==
    IF ~bot THEN {Outcome("exit1", FALSE)}
    ELSE {Outcome("exit0", FALSE), Outcome("exit0", TRUE)}

\* slack_acknowledger.py: main lines 261-275, run_continuous lines 170-175.
main_ack_continuous(bot) ==
    IF ~bot THEN {Outcome("exit1", FALSE)}
    ELSE {Outcome("running", FALSE), Outcome("running", TRUE)}

\* The outcomes of main for the mode, under the tokens of the environment.
main(m, bot, app) ==
    CASE m = "poll" -> main_poll(bot)
      [] m = "sync" -> main_sync(bot)
      [] m = "socket" -> main_socket(bot, app)
      [] m = "ack_once" -> main_ack_once(bot)
      [] OTHER -> main_ack_continuous(bot)

\* The program is run in mode m, with or without each token in .env.
Run(m) ==
    /\ \E bot, app \in BOOLEAN : \E o \in main(m, bot, app) :
          runs' = [runs EXCEPT ![m] = [bot |-> bot, app |-> app,
                                       exit |-> o.exit, called |-> o.called]]
    /\ UNCHANGED <<providerVars, inboxFile, cursorFile, ledgerFile, listenerVars,
                   ackVars, fed, historyAck, storeVars, sup, dl>>

RunListener == \E m \in {"poll", "socket", "sync"} : Run(m)

RunAcknowledger == \E m \in {"ack_once", "ack_continuous"} : Run(m)

(***************************************************************************)
(* The Supervisor (slack_bot.py): start, stop and status of the two        *)
(* background processes, through the handle file slack_bot_pids.json.      *)
(***************************************************************************)
Pids == 1..MaxPid
Roles == {"listener", "acknowledger"}
Platforms == {"unix", "win32"}

\* slack_bot_pids.json absent; load_pids then returns {}.
NoPidFile == [exists |-> FALSE, listener |-> 0, acknowledger |-> 0]

\* A machine of the platform on which nothing has been started.
Machine(platform) ==
    [platform |-> platform,
     pidFile |-> NoPidFile,
     alive |-> {},
     sent |-> [p \in Pids |-> <<>>]]

\* load_pids, lines 39-47, then pids.get(role): 0 stands for None.
load_pids(file, role) == IF file.exists THEN file[role] ELSE 0

\* is_process_running, lines 57-75.
is_process_running(pid, alive) == pid # 0 /\ pid \in alive

\* stop_service, lines 106-131, for a live process: the signals it sends.
\* On win32 one taskkill /F; elsewhere SIGTERM, and SIGKILL when the process
\* is still running half a second later.
stop_service(platform, survives) ==
    IF platform = "win32" THEN <<"taskkill /F">>
    ELSE IF survives THEN <<"SIGTERM", "SIGKILL">>
    ELSE <<"SIGTERM">>

\* The signals stop_bot sends to the process of a role: none without a
\* handle (line 164), and none that arrives when the process is gone
\* (os.kill and taskkill fail, line 129).
StopSignals(role, survives) ==
    IF is_process_running(load_pids(sup.pidFile, role), sup.alive)
    THEN stop_service(sup.platform, survives)
    ELSE <<>>

\* start_bot, lines 134-155: two new processes, their handles saved.
start_bot ==
    /\ \E l, a \in Pids \ sup.alive :
          /\ l # a
          /\ sup' = [sup EXCEPT
                        !.alive = @ \cup {l, a},
                        !.sent = [@ EXCEPT ![l] = <<>>, ![a] = <<>>],
                        !.pidFile = [exists |-> TRUE, listener |-> l, acknowledger |-> a]]
    /\ UNCHANGED <<providerVars, inboxFile, cursorFile, ledgerFile, listenerVars,
                   ackVars, fed, historyAck, storeVars, runs, dl>>

\* A background process ends by itself (missing token, an exception).
ProcessExits ==
    /\ \E p \in sup.alive : sup' = [sup EXCEPT !.alive = @ \ {p}]
    /\ UNCHANGED <<providerVars, inboxFile, cursorFile, ledgerFile, listenerVars,
                   ackVars, fed, historyAck, storeVars, runs, dl>>

\* stop_bot, lines 158-174: both services are stopped, then the handle file
\* is removed.
stop_bot ==
    /\ \E sl, sa \in BOOLEAN :
          LET l == load_pids(sup.pidFile, "listener")
              a == load_pids(sup.pidFile, "acknowledger")
          IN  sup' = [sup EXCEPT
                        !.alive = @ \ {l, a},
                        !.sent = [p \in Pids |->
                                    IF p = l THEN @[p] \o StopSignals("listener", sl)
                                    ELSE IF p = a THEN @[p] \o StopSignals("acknowledger", sa)
                                    ELSE @[p]],
                        !.pidFile = NoPidFile]
    /\ UNCHANGED <<providerVars, inboxFile, cursorFile, ledgerFile, listenerVars,
                   ackVars, fed, historyAck, storeVars, runs, dl>>

\* show_status, lines 177-189: RUNNING or STOPPED for the role.
show_status(role, machine) ==
    IF is_process_running(load_pids(machine.pidFile, role), machine.alive)
    THEN "RUNNING" ELSE "STOPPED"

(***************************************************************************)
(* The file download helper (slack_file_download.py).  The file records    *)
(* of a message are put there when the message is inserted, each with its  *)
(* id and not downloaded.                                                  *)
(***************************************************************************)
FileIds == {"F1", "F2"}
NoPath == <<>>

\* A file record as inserted: not downloaded, no local_path.
FileRecord(id) == [id |-> id, downloaded |-> FALSE, local_path |-> NoPath]

\* A message inserted with file records.
MessageWithFiles(id, user, text, timestamp, files) ==
    [id |-> id, user |-> user, text |-> text, timestamp |-> timestamp,
     read |-> FALSE, files |-> files]

\* The path download_file saves the file at, lines 145-148.
LocalPath(id) == <<"slack_downloads", id>>

\* The helper is not running; it has downloaded nothing yet.
NotDownloading == [pc |-> "idle", pending |-> <<>>, last |-> [id |-> "", ok |-> FALSE]]

\* get_pending_files, lines 59-75: the files of message i from file j on,
\* then those of the messages after it.
RECURSIVE PendingFiles(_, _, _)
PendingFiles(inbox, i, j) ==
    IF i > Len(inbox) THEN <<>>
    ELSE IF j > Len(inbox[i].files) THEN PendingFiles(inbox, i + 1, 1)
    ELSE IF inbox[i].files[j].downloaded THEN PendingFiles(inbox, i, j + 1)
    ELSE <<[file |-> inbox[i].files[j], message_id |-> inbox[i].id]>>
             \o PendingFiles(inbox, i, j + 1)

get_pending_files(inbox) == PendingFiles(inbox, 1, 1)

\* update_inbox_file_status, lines 194-207: every file record with the id
\* is marked, in every message, and the document is written back.
update_inbox_file_statusAll(inbox, file_id, local_path) ==
    [i \in 1..Len(inbox) |->
        [inbox[i] EXCEPT !.files =
            [j \in 1..Len(inbox[i].files) |->
                [inbox[i].files[j] EXCEPT !.downloaded = TRUE,
                                          !.local_path = local_path]]]]
update_inbox_file_status(inbox, file_id, local_path) ==
    [i \in 1..Len(inbox) |->
        [inbox[i] EXCEPT !.files =
            [j \in 1..Len(inbox[i].files) |->
                IF inbox[i].files[j].id = file_id
                THEN [inbox[i].files[j] EXCEPT !.downloaded = TRUE,
                                               !.local_path = local_path]
                ELSE inbox[i].files[j]]]]

\* download_all_pending, lines 210-222: the pending list is taken; with
\* nothing pending the helper returns.
download_all_pendingStart ==
    /\ dl.pc = "idle"
    /\ LET p == get_pending_files(load_inbox(inboxKind, inboxFile)) IN
         dl' = IF p = <<>> THEN dl
               ELSE [pc |-> "running", pending |-> p, last |-> dl.last]
    /\ UNCHANGED <<providerVars, inboxFile, cursorFile, ledgerFile, listenerVars,
                   ackVars, fed, historyAck, storeVars, runs, sup>>

\* download_all_pending, lines 226-239: one pass of the for loop.
\* download_file (lines 116-191) reports success or a failure; on success
\* the inbox is updated.
download_all_pendingItem ==
    /\ dl.pc = "running"
    /\ \E ok \in BOOLEAN :
          LET id == Head(dl.pending).file.id IN
          /\ inboxFile' = IF ok
                          THEN update_inbox_file_status(load_inbox(inboxKind, inboxFile),
                                                        id, LocalPath(id))
                          ELSE inboxFile
          /\ dl' = [pc |-> IF Tail(dl.pending) = <<>> THEN "idle" ELSE "running",
                    pending |-> Tail(dl.pending),
                    last |-> [id |-> id, ok |-> ok]]
    /\ UNCHANGED <<providerVars, cursorFile, ledgerFile, listenerVars,
                   ackVars, fed, historyAck, storeVars, runs, sup>>

\* download_by_id, lines 244-276: the file is looked up in the inbox,
\* downloaded or not yet, and downloaded.
download_by_id ==
    /\ dl.pc = "idle"
    /\ \E file_id \in FileIds, ok \in BOOLEAN :
          IF \E i \in 1..Len(inboxFile) : \E j \in 1..Len(inboxFile[i].files) :
                 inboxFile[i].files[j].id = file_id
          THEN /\ inboxFile' = IF ok
                               THEN update_inbox_file_status(load_inbox(inboxKind, inboxFile),
                                                             file_id, LocalPath(file_id))
                               ELSE inboxFile
               /\ dl' = [dl EXCEPT !.last = [id |-> file_id, ok |-> ok]]
          ELSE UNCHANGED <<inboxFile, dl>>
    /\ UNCHANGED <<providerVars, cursorFile, ledgerFile, listenerVars,
                   ackVars, fed, historyAck, storeVars, runs, sup>>

(***************************************************************************)
(* Initial state: nothing posted, no files, no process running.            *)
(***************************************************************************)
Init ==
    /\ channel = {}
    /\ reactions = {}
    /\ inflight = {}
    /\ inboxFile = <<>>
    /\ cursorFile = NoCursor
    /\ ledgerFile = EmptyBag
    /\ lpc = "stopped"
    /\ known_ts = {}
    /\ last_ts = ZeroTs
    /\ messages = <<>>
    /\ pos = 0
    /\ apc = "stopped"
    /\ pending = <<>>
    /\ acknowledged = {}
    /\ new_count = 0
    /\ fed = [t \in Timestamps |-> 0]
    /\ ackCalls = [t \in Timestamps |-> 0]
    /\ ackOk = {}
    /\ ackAgain = {}
    /\ inboxKind = "json"
    /\ rmw = [w \in Writers |-> Idle]
    /\ runs = [m \in Modes |-> NotRun]
    /\ sup = Machine("unix")
    /\ dl = NotDownloading

\* The Listener in poll mode, alone with the provider.
PollNext ==
    \/ Post
    \/ PollStart
    \/ PollFetch
    \/ PollFetchFails
    \/ PollStep
    \/ PollFinish
    \/ ListenerStop

SpecPoll == Init /\ [][PollNext]_vars

\* One Listener process at a time: the poll loop, or a one-shot --sync
\* while no Listener runs.
ListenerNext ==
    \/ PollNext
    \/ (lpc = "stopped" /\ sync_history)

SpecListener == Init /\ [][ListenerNext]_vars

\* Every entry point of the Listener, in any interleaving: the poll loop
\* or Socket Mode as the running Listener, and --sync commands beside it.
IngestNext ==
    \/ PollNext
    \/ sync_history
    \/ SocketStart
    \/ handle_message
    \/ handle_mention

SpecIngest == Init /\ [][IngestNext]_vars

\* The Acknowledger beside the consumer that marks messages read, with the
\* inbox filled by history syncs.
AckNext ==
    \/ Post
    \/ sync_history
    \/ MarkRead
    \/ mark_all_read
    \/ AckStart
    \/ AckScan
    \/ AckOne
    \/ AckFinish
    \/ AckStop

Spec == Init /\ [][AckNext]_vars

\* The Acknowledger that keeps cycling (it is never stopped): each step of
\* its loop is taken once it can be, and a provider that can confirm an
\* acknowledgment again and again eventually does.
LiveNext ==
    \/ Post
    \/ sync_history
    \/ MarkRead
    \/ mark_all_read
    \/ AckStart
    \/ AckScan
    \/ AckOne
    \/ AckFinish

SpecLive ==
    /\ Init
    /\ [][LiveNext]_vars
    /\ WF_vars(AckStart)
    /\ WF_vars(AckScan)
    /\ WF_vars(AckOne)
    /\ WF_vars(AckFinish)
    /\ SF_vars(AckConfirmed)

\* The inputs of get_pending_acknowledgments: any inbox of up to MaxLen
\* records of the events a Listener stores (record i has id i, each read or
\* not), and any ledger over their timestamps; the Acknowledger is about to
\* scan.
StoredEvents == { AllEvents[i] : i \in { j \in 1..Len(AllEvents) : ~IsBot(AllEvents[j]) } }

Inboxes ==
    UNION { { [i \in 1..n |-> [Message(i, f[i][1].user, f[i][1].text, f[i][1].ts)
                                  EXCEPT !.read = f[i][2]]] :
                f \in [1..n -> StoredEvents \X BOOLEAN] } : n \in 0..MaxLen }

InitPending ==
    /\ channel = {}
    /\ reactions = {}
    /\ inflight = {}
    /\ inboxFile \in Inboxes
    /\ cursorFile = NoCursor
    /\ ledgerFile \in { save_acknowledged(S) : S \in SUBSET { e.ts : e \in StoredEvents } }
    /\ lpc = "stopped"
    /\ known_ts = {}
    /\ last_ts = ZeroTs
    /\ messages = <<>>
    /\ pos = 0
    /\ apc = "idle"
    /\ pending = <<>>
    /\ acknowledged = {}
    /\ new_count = 0
    /\ fed = [t \in Timestamps |-> 0]
    /\ ackCalls = [t \in Timestamps |-> 0]
    /\ ackOk = {}
    /\ ackAgain = {}
    /\ inboxKind = "json"
    /\ rmw = [w \in Writers |-> Idle]
    /\ runs = [m \in Modes |-> NotRun]
    /\ sup = Machine("unix")
    /\ dl = NotDownloading

SpecPending == InitPending /\ [][AckScan]_vars

\* The Acknowledger's cycles over any inbox the Listener can have left,
\* with any ledger.
AckCycleNext ==
    \/ AckScan
    \/ AckOne
    \/ AckFinish

SpecAckCycle == InitPending /\ [][AckCycleNext]_vars

\* The Acknowledger with file input/output that can fail.
AckFaultNext ==
    \/ AckNext
    \/ AckLoadRaises
    \/ save_acknowledgedRaises

SpecAckFault == Init /\ [][AckFaultNext]_vars

\* Every operation of the Acknowledger, beside the writers of the inbox and
\* of the cursor.
AckFrameNext ==
    \/ AckFaultNext
    \/ ack_show_status

SpecAckFrame == Init /\ [][AckFrameNext]_vars

\* The download helper over any inbox of up to MaxLen messages that carry
\* up to MaxFiles file records each, none downloaded yet, beside the
\* consumer that marks messages read.
FileLists == UNION { [1..k -> FileIds] : k \in 0..MaxFiles }

DownloadInboxes ==
    UNION { { [i \in 1..n |->
                 MessageWithFiles(i, AllEvents[2 * i - 1].user, AllEvents[2 * i - 1].text,
                                  AllEvents[2 * i - 1].ts,
                                  [j \in 1..Len(f[i]) |-> FileRecord(f[i][j])])] :
              f \in [1..n -> FileLists] } : n \in 0..MaxLen }

InitDownload ==
    /\ channel = {}
    /\ reactions = {}
    /\ inflight = {}
    /\ inboxFile \in DownloadInboxes
    /\ cursorFile = NoCursor
    /\ ledgerFile = EmptyBag
    /\ lpc = "stopped"
    /\ known_ts = {}
    /\ last_ts = ZeroTs
    /\ messages = <<>>
    /\ pos = 0
    /\ apc = "stopped"
    /\ pending = <<>>
    /\ acknowledged = {}
    /\ new_count = 0
    /\ fed = [t \in Timestamps |-> 0]
    /\ ackCalls = [t \in Timestamps |-> 0]
    /\ ackOk = {}
    /\ ackAgain = {}
    /\ inboxKind = "json"
    /\ rmw = [w \in Writers |-> Idle]
    /\ runs = [m \in Modes |-> NotRun]
    /\ sup = Machine("unix")
    /\ dl = NotDownloading

DownloadNext ==
    \/ download_all_pendingStart
    \/ download_all_pendingItem
    \/ download_by_id
    \/ MarkRead
    \/ mark_all_read

SpecDownload == InitDownload /\ [][DownloadNext]_vars

\* The Inbox Store with its writers interleaved at their loads and saves.
StoreNext ==
    \/ \E w \in Adders : add_messageLoad(w)
    \/ \E w \in Adders : add_messageSave(w)
    \/ mark_all_readLoad
    \/ mark_all_readSave
    \/ update_inbox_file_statusLoad
    \/ update_inbox_file_statusSave
    \/ clear_inbox
    \/ \E w \in Writers : save_inboxKilled(w)

SpecStore == Init /\ [][StoreNext]_vars

\* The Listener in poll mode with input/output that can fail.
PollFaultNext ==
    \/ PollNext
    \/ PollStepRaises
    \/ PollLogRaises

SpecPollFault == Init /\ [][PollFaultNext]_vars

\* The poll loop and the Socket Mode message handler with an inbox write
\* that may fail and a receipt reaction that may fail.
ReceiptNext ==
    \/ PollFaultNext
    \/ SocketStart
    \/ handle_message
    \/ handle_messageRaises

SpecReceipt == Init /\ [][ReceiptNext]_vars

\* The Supervisor on either platform, with processes that may end by
\* themselves.
InitSupervisor ==
    /\ channel = {}
    /\ reactions = {}
    /\ inflight = {}
    /\ inboxFile = <<>>
    /\ cursorFile = NoCursor
    /\ ledgerFile = EmptyBag
    /\ lpc = "stopped"
    /\ known_ts = {}
    /\ last_ts = ZeroTs
    /\ messages = <<>>
    /\ pos = 0
    /\ apc = "stopped"
    /\ pending = <<>>
    /\ acknowledged = {}
    /\ new_count = 0
    /\ fed = [t \in Timestamps |-> 0]
    /\ ackCalls = [t \in Timestamps |-> 0]
    /\ ackOk = {}
    /\ ackAgain = {}
    /\ inboxKind = "json"
    /\ rmw = [w \in Writers |-> Idle]
    /\ runs = [m \in Modes |-> NotRun]
    /\ \E platform \in Platforms : sup = Machine(platform)
    /\ dl = NotDownloading

SupervisorNext ==
    \/ start_bot
    \/ ProcessExits
    \/ stop_bot

SpecSupervisor == InitSupervisor /\ [][SupervisorNext]_vars

\* The programs started in their run modes, under every environment.
StartupNext == RunListener \/ RunAcknowledger

SpecStartup == Init /\ [][StartupNext]_vars

\* The Acknowledger with a stop that can fall inside the write of the ledger.
AckKillNext == AckNext \/ save_acknowledgedKilled

SpecAckKill == Init /\ [][AckKillNext]_vars

(***************************************************************************)
(* Properties of the Listener.                                             *)
(***************************************************************************)

\* C1 (SpecListener): idempotent ingestion.  However often a batch processed
\* by the poll loop or by sync_history held a timestamp (twice in one page,
\* or in overlapping pages of successive cycles and runs), the inbox holds
\* exactly one record of every timestamp a finished batch held, and never
\* two records of any timestamp.
C1_IdempotentIngestion ==
    \A t \in Timestamps :
        /\ Count(inboxFile, t) <= 1
        /\ fed[t] >= 1 => Count(inboxFile, t) = 1

\* C1's case: a timestamp was fed twice and is the inbox's only record, id 1.
C1_Witness ==
    \E t \in Timestamps :
        /\ fed[t] = 2
        /\ Len(inboxFile) = 1
        /\ inboxFile[1].timestamp = t
        /\ inboxFile[1].id = 1

\* C2 (SpecIngest): no two records of the inbox carry the same timestamp,
\* whichever entry points of the Listener inserted them.
C2_UniqueTimestamps ==
    \A i, j \in 1..Len(inboxFile) :
        inboxFile[i].timestamp = inboxFile[j].timestamp => i = j

\* The cursor the next fetch of the poll loop is bounded by.
NextOldest == IF lpc = "stopped" THEN get_last_sync_ts_or_zero(cursorFile) ELSE last_ts

\* C3 (SpecPoll): no lost messages.  A message of a user that the provider
\* holds and the inbox lacks is still ahead of the poll loop: it is in the
\* page being processed or newer than the cursor the next fetch uses, so a
\* later cycle stores it.  (The cursor of the poll loop never moves back in
\* the provider's order, so a message behind it is never fetched again.)
C3_NoLostMessage ==
    \A e \in channel :
        ~IsBot(e) =>
            \/ Count(inboxFile, e.ts) >= 1
            \/ NumVal(e.ts) > NumVal(NextOldest)

\* C4 (SpecPoll): monotonic cursor.  Over the cycles of the poll loop the
\* in-memory last_ts and the persisted cursor change only together, only to
\* a timestamp of the fetched page, and only to one that is greater than the
\* current cursor as a string; a restart resumes from the persisted cursor.
C4_MonotonicCursor ==
    [][ /\ (lpc # "stopped" /\ lpc' # "stopped" /\ last_ts' # last_ts) =>
              /\ StrLess(last_ts, last_ts')
              /\ \E i \in 1..Len(messages) : messages[i].ts = last_ts'
              /\ cursorFile' = last_ts'
        /\ (cursorFile' # cursorFile) =>
              /\ StrLess(cursorFile, cursorFile')
              /\ StrLess(last_ts, cursorFile')
              /\ last_ts' = cursorFile'
        /\ (lpc = "stopped" /\ lpc' # "stopped") =>
              last_ts' = get_last_sync_ts_or_zero(cursorFile)
      ]_vars

\* C4's case: the page held "10" after the cursor stood at "9"; "10" was
\* stored and the cursor stayed, since "10" < "9" as strings.
C4_Witness ==
    /\ lpc = "sleep"
    /\ cursorFile = <<9>>
    /\ last_ts = <<9>>
    /\ Count(inboxFile, <<1, 0>>) = 1

(***************************************************************************)
(* Properties of the Acknowledger.                                         *)
(***************************************************************************)
\* The pending list get_pending_acknowledgments returns in this state.
PendingNow == get_pending_acknowledgments(inboxFile, ledgerFile)

\* A process_acknowledgments cycle that made calls returns (past the save).
CycleEnds == apc = "acking" /\ apc' = "idle"

\* A text with one of the two system-event phrases.
SystemText(text) == Contains(text, JoinText) \/ Contains(text, RenameText)

\* Some record of the inbox carries the timestamp, is read and is no system
\* event.
ReadUserMessage(t) ==
    \E i \in 1..Len(inboxFile) :
        /\ inboxFile[i].timestamp = t
        /\ inboxFile[i].read
        /\ ~SystemText(inboxFile[i].text)

\* C5 (SpecLive): at-least-once acknowledgment.  Every record that is read
\* and is no system event eventually has its timestamp in the ledger, when
\* the Acknowledger keeps cycling and the provider eventually confirms; and
\* a cycle that ends leaves every such record it did not get confirmed in
\* the pending list, to be retried.
C5_AtLeastOnceAck ==
    /\ \A t \in Timestamps : ReadUserMessage(t) ~> BagIn(t, ledgerFile)
    /\ [][ CycleEnds =>
             \A i \in 1..Len(inboxFile') :
                 ( /\ inboxFile'[i].read
                   /\ ~SystemText(inboxFile'[i].text)
                   /\ ~BagIn(inboxFile'[i].timestamp, ledgerFile') )
                 => \E k \in 1..Len(PendingNow') : PendingNow'[k] = inboxFile'[i]
         ]_vars

\* C5's case: a call for the timestamp failed, a later cycle retried it, and
\* the timestamp is in the ledger.
C5_Witness ==
    \E t \in Timestamps :
        /\ ackCalls[t] = 2
        /\ t \notin ackAgain
        /\ BagIn(t, ledgerFile)

\* C6 as claimed (Spec): a timestamp is in the persisted ledger if and only
\* if an acknowledgment call for it has been confirmed.
C6_LedgerIffConfirmed ==
    \A t \in Timestamps : BagIn(t, ledgerFile) <=> t \in ackOk

\* C6 amended (Spec): a timestamp is in the persisted ledger only if an
\* acknowledgment call for it has been confirmed (a success or an
\* already-reacted answer); and when a process_acknowledgments cycle returns,
\* every timestamp the cycle got confirmed is in the persisted ledger.
C6_LedgerOnlyConfirmed ==
    /\ [](\A t \in Timestamps : BagIn(t, ledgerFile) => t \in ackOk)
    /\ [][ CycleEnds => \A t \in acknowledged : BagIn(t, ledgerFile') ]_vars

\* C6's case: a confirmed timestamp is not in the ledger yet (the cycle has
\* not saved), while the ledger holds an earlier one.
C6_Witness ==
    \E t, u \in Timestamps :
        /\ t \in ackOk
        /\ ~BagIn(t, ledgerFile)
        /\ BagIn(u, ledgerFile)

\* The inbox holds one message; before the step it is unread, after it read.
OneUnread == Len(inboxFile) = 1 /\ ~inboxFile[1].read
OneRead == Len(inboxFile) = 1 /\ inboxFile[1].read

\* C7 as claimed (Spec): with one unread message nothing is pending; once it
\* is marked read it is pending, once; after one process_acknowledgments
\* cycle it is not pending and its timestamp is in the ledger.
C7_ReadThenAck ==
    /\ [](OneUnread => PendingNow = <<>>)
    /\ [][ (OneUnread /\ OneRead') => PendingNow' = <<inboxFile'[1]>> ]_vars
    /\ [][ (CycleEnds /\ OneRead) =>
             /\ PendingNow' = <<>>
             /\ BagIn(inboxFile[1].timestamp, ledgerFile') ]_vars

\* C7 amended (Spec): with one unread message nothing is pending; once it is
\* marked read it is pending, once, unless it is a system event; after one
\* process_acknowledgments cycle whose call was confirmed (new_count > 0) it
\* is not pending and its timestamp is in the ledger, and after a cycle whose
\* call failed it is still pending and not in the ledger.
C7_ReadThenAckConfirmed ==
    /\ [](OneUnread => PendingNow = <<>>)
    /\ [][ (OneUnread /\ OneRead' /\ ~SystemText(inboxFile[1].text)) =>
             PendingNow' = <<inboxFile'[1]>> ]_vars
    /\ [][ (CycleEnds /\ OneRead /\ new_count > 0) =>
             /\ PendingNow' = <<>>
             /\ BagIn(inboxFile[1].timestamp, ledgerFile') ]_vars
    /\ [][ (CycleEnds /\ OneRead /\ new_count = 0) =>
             /\ PendingNow' = <<inboxFile'[1]>>
             /\ ~BagIn(inboxFile[1].timestamp, ledgerFile') ]_vars

\* C7's case: the one message was read and acknowledged by a cycle.
C7_Witness ==
    /\ OneRead
    /\ apc = "idle"
    /\ PendingNow = <<>>
    /\ BagIn(inboxFile[1].timestamp, ledgerFile)

\* C8 (Spec): acknowledgment idempotence.  The ledger never lists a
\* timestamp twice, no call of the acknowledgment path raises (the
\* Acknowledger never ends on an exception), and a cycle that returns with a
\* timestamp it called for a second time leaves it in the ledger exactly once.
C8_AckIdempotent ==
    /\ [](\A t \in Timestamps : CopiesIn(t, ledgerFile) <= 1)
    /\ [](apc # "crashed")
    /\ [][ CycleEnds =>
             \A t \in acknowledged :
                 ackCalls[t] = 2 => CopiesIn(t, ledgerFile') = 1 ]_vars

\* C8's case: the second call for a timestamp was answered already_reacted
\* and the timestamp is in the ledger.
C8_Witness ==
    \E t \in Timestamps :
        /\ ackCalls[t] = 2
        /\ t \in ackAgain
        /\ CopiesIn(t, ledgerFile) = 1

\* C9 (SpecPending): for every inbox and ledger, get_pending_acknowledgments
\* returns the records that are read, not in the ledger and no join or rename
\* event, in inbox order, each once: its k-th entry is the record at the
\* k-th smallest index the rule selects; and that is the list the scan of
\* process_acknowledgments works on.
C9_PendingRule ==
    LET RuleIdx == { i \in 1..Len(inboxFile) :
                       /\ inboxFile[i].read = TRUE
                       /\ ~BagIn(inboxFile[i].timestamp, ledgerFile)
                       /\ ~Contains(inboxFile[i].text, JoinText)
                       /\ ~Contains(inboxFile[i].text, RenameText) }
    IN  /\ Len(PendingNow) = Cardinality(RuleIdx)
        /\ \A k \in 1..Len(PendingNow) :
              \E i \in RuleIdx :
                  /\ Cardinality({ j \in RuleIdx : j <= i }) = k
                  /\ PendingNow[k] = inboxFile[i]
        /\ apc = "acking" => pending = PendingNow

\* C9's case: the scan found one record pending in an inbox that also holds
\* a read record excluded by the ledger or as a system event.
C9_Witness ==
    /\ apc = "acking"
    /\ Len(pending) = 1
    /\ Len(inboxFile) = 2
    /\ inboxFile[1].read /\ inboxFile[2].read
    /\ \E i \in 1..2 : Contains(inboxFile[i].text, RenameText)

\* C10 (Spec): a record whose text contains "has joined the channel" is
\* never pending, whatever its read flag; the Acknowledger never calls the
\* provider for it and never puts its timestamp into the ledger.
C10_SystemEventExcluded ==
    \A i \in 1..Len(inboxFile) :
        Contains(inboxFile[i].text, JoinText) =>
            /\ \A k \in 1..Len(PendingNow) : PendingNow[k] # inboxFile[i]
            /\ \A k \in 1..Len(pending) : pending[k].timestamp # inboxFile[i].timestamp
            /\ ackCalls[inboxFile[i].timestamp] = 0
            /\ inboxFile[i].timestamp \notin acknowledged
            /\ ~BagIn(inboxFile[i].timestamp, ledgerFile)

\* C10's case: a join event is in the inbox, marked read, and the
\* Acknowledger has acknowledged another message beside it.
C10_Witness ==
    /\ \E i \in 1..Len(inboxFile) :
          Contains(inboxFile[i].text, JoinText) /\ inboxFile[i].read
    /\ \E t \in Timestamps : BagIn(t, ledgerFile)

(***************************************************************************)
(* Properties of the Inbox Store.                                          *)
(***************************************************************************)
\* The writer takes the step that loads the file (the load returns or raises).
Loads(w) == rmw[w].pc # "loaded" /\ rmw'[w].pc # "idle" /\ rmw'[w] # rmw[w]

\* The writer takes the step that writes the file, to the end.
Saves(w) == rmw[w].pc = "loaded" /\ rmw'[w] = Idle /\ inboxKind' = "json"

\* The step of clear_inbox.
Clears == inboxFile' = <<>> /\ inboxKind' = "json" /\ rmw' = rmw

\* The same message: id, sender, text and timestamp agree.
SameRecord(a, b) ==
    /\ a.id = b.id
    /\ a.user = b.user
    /\ a.text = b.text
    /\ a.timestamp = b.timestamp

\* C11 (SpecStore): corrupt-store resilience.  When the inbox file holds
\* invalid JSON, the load of add_message returns the empty list instead of
\* raising, and the save that follows leaves a valid store of exactly one
\* record, with id 1.
C11_CorruptStoreResilience ==
    [][ \A w \in Adders :
          /\ (inboxKind # "json" /\ Loads(w)) =>
                (rmw'[w].pc = "loaded" /\ rmw'[w].inbox = <<>>)
          /\ (inboxKind # "json" /\ Saves(w) /\ rmw[w].inbox = <<>>) =>
                (Len(inboxFile') = 1 /\ inboxFile'[1].id = 1)
      ]_vars

\* C12 as claimed (SpecStore): under any interleaving of the writers, every
\* record present in the store stays present, with id, sender, text and
\* timestamp unchanged, in every step but the one of clear_inbox (and but
\* a save cut short, which leaves no valid store).
C12_RecordsNeverDeleted ==
    [][ (~Clears /\ inboxKind' = "json") =>
          \A i \in 1..Len(inboxFile) :
              \E j \in 1..Len(inboxFile') : SameRecord(inboxFile[i], inboxFile'[j])
      ]_vars

\* C12 amended (SpecStore): a writer other than clear_inbox never drops a
\* record of the list it loaded: its completed save writes every record of
\* that list, at its place, with id, sender, text and timestamp unchanged;
\* so every record present in the store stays present across a save whose
\* writer loaded the store as it is now.  A load changes nothing.
C12_WriterKeepsLoadedRecords ==
    [][ /\ \A w \in Writers :
             Saves(w) =>
                /\ \A i \in 1..Len(rmw[w].inbox) :
                      /\ i <= Len(inboxFile')
                      /\ SameRecord(rmw[w].inbox[i], inboxFile'[i])
                /\ (inboxKind = "json" /\ rmw[w].inbox = inboxFile) =>
                      \A i \in 1..Len(inboxFile) :
                          SameRecord(inboxFile[i], inboxFile'[i])
        /\ (\E w \in Writers : Loads(w)) => (inboxFile' = inboxFile /\ inboxKind' = inboxKind)
      ]_vars

\* C12's case: the store holds a record that was marked read and a later
\* one, while another writer still holds the shorter list it loaded.
C12_Witness ==
    /\ Len(inboxFile) = 2
    /\ inboxFile[1].read
    /\ ~inboxFile[2].read
    /\ rmw["file_download"].pc = "loaded"
    /\ Len(rmw["file_download"].inbox) = 1

\* C13 (SpecStore): message ids.  In every state the i-th record of the
\* store has id i (so ids are unique and increase along the store), and the
\* record add_message appends has as id the number of records it loaded
\* plus one.
C13_MessageIds ==
    /\ [](\A i \in 1..Len(inboxFile) : inboxFile[i].id = i)
    /\ [][ \A w \in Adders :
             Saves(w) =>
                /\ Len(inboxFile') = Len(rmw[w].inbox) + 1
                /\ inboxFile'[Len(inboxFile')].id = Len(rmw[w].inbox) + 1
         ]_vars

\* C13's case: two callers of add_message loaded the same one-record store;
\* one has stored its record with id 2, the other is about to.
C13_Witness ==
    /\ Len(inboxFile) = 2
    /\ inboxFile[2].id = 2
    /\ rmw["sync"].pc = "loaded"
    /\ Len(rmw["sync"].inbox) = 1

(***************************************************************************)
(* Properties of the ledger file.                                          *)
(***************************************************************************)
\* C14 (SpecAckKill): the Acknowledgment Ledger never shrinks.  Across
\* Acknowledger cycles, failed calls, stops and restarts, and a ledger file
\* left unreadable, every timestamp in the persisted ledger is in it after
\* every step.
C14_LedgerNeverShrinks ==
    [][ \A t \in Timestamps : BagIn(t, ledgerFile) => BagIn(t, ledgerFile') ]_vars

(***************************************************************************)
(* Properties of the startup.                                              *)
(***************************************************************************)
\* C15 (SpecStartup): a missing credential is fatal at startup.  A run of
\* any mode without the bot token, and a Socket Mode run without the app
\* token, exits with a non-zero status and makes no provider call.
C15_MissingCredentialFatal ==
    \A m \in Modes :
        ( /\ runs[m].exit # "not_run"
          /\ (~runs[m].bot \/ (m = "socket" /\ ~runs[m].app)) )
        => (runs[m].exit = "exit1" /\ ~runs[m].called)

(***************************************************************************)
(* Properties of the poll loop under failures.                             *)
(***************************************************************************)
\* C16 (SpecPollFault): the Listener never exits on a transient error.  An
\* exception inside a poll cycle never ends poll_for_messages: the loop is
\* left only by an interrupt.
C16_ListenerNeverExits == lpc # "crashed"

\* C18 (SpecPollFault): per-message isolation.  While entries of the fetched
\* batch remain after the one at hand, a step of the Listener goes on to the
\* next entry with the batch unchanged, whatever happened to the entry at
\* hand, unless the process is interrupted.
C18_PerMessageIsolation ==
    [][ (lpc = "batch" /\ pos >= 2 /\ listenerVars' # listenerVars /\ lpc' # "stopped") =>
            (lpc' = "batch" /\ messages' = messages /\ pos' = pos - 1)
      ]_vars

(***************************************************************************)
(* Properties of the Supervisor.                                           *)
(***************************************************************************)
\* C17 (SpecSupervisor): Supervisor stop.  After stop_bot, each process
\* whose handle was in the handle file has been sent a termination signal,
\* the graceful SIGTERM first and the forceful signal only after it; the
\* handle file is gone; and status reports both roles STOPPED.
C17_SupervisorStop ==
    [][ (sup.pidFile.exists /\ ~sup'.pidFile.exists) =>
          /\ \A role \in Roles :
                LET p == sup.pidFile[role] IN
                    (p \in sup.alive) =>
                        /\ Len(sup'.sent[p]) >= 1
                        /\ sup'.sent[p][1] = "SIGTERM"
                        /\ \A k \in 2..Len(sup'.sent[p]) : sup'.sent[p][k] = "SIGKILL"
          /\ \A role \in Roles : show_status(role, sup') = "STOPPED"
      ]_vars

(***************************************************************************)
(* Properties of the persisted cursor under every writer.                  *)
(***************************************************************************)
\* a is an earlier timestamp than b, both as the program compares
\* timestamps (strings) and as the provider does (numbers).
Earlier(a, b) == StrLess(a, b) /\ NumVal(a) < NumVal(b)

\* C19 (SpecIngest): the persisted Sync Cursor is monotonically
\* non-decreasing under every operation that writes it: the poll loop, the
\* one-shot sync_history, and a sync_history run beside a running poll loop.
\* No write replaces the cursor by an earlier timestamp.
C19_PersistedCursorMonotonic ==
    [][ cursorFile' # cursorFile => ~Earlier(cursorFile', cursorFile) ]_vars

(***************************************************************************)
(* Properties of the bot filter.                                           *)
(***************************************************************************)
\* C20 (SpecIngest): an event with a bot_id or with subtype "bot_message"
\* never produces an inbox record and never gets a reaction, whichever
\* Listener path it arrives by: the poll loop, sync_history, or the Socket
\* Mode message and app_mention handlers.
C20_BotEventsIgnored ==
    \A e \in Events :
        IsBot(e) =>
            /\ Count(inboxFile, e.ts) = 0
            /\ \A r \in reactions : r[1] # e.ts

(***************************************************************************)
(* Properties of the receipt reaction.                                     *)
(***************************************************************************)
\* The inbox only grew: every record is still there, at its place.
InboxKept == Len(inboxFile') >= Len(inboxFile) /\ SubSeq(inboxFile', 1, Len(inboxFile)) = inboxFile

\* A pass of the poll loop stored a record and its reaction call failed.
StoredUnreacted ==
    /\ lpc = "batch"
    /\ Len(inboxFile') = Len(inboxFile) + 1
    /\ reactions' = reactions

\* C21 (SpecReceipt): the durable write never depends on the side effect.
\* The Listener stores the record before it attempts the receipt reaction,
\* so a message with a receipt reaction has its record; no step removes a
\* record; a pass whose reaction call failed goes on to the next entry of
\* the batch; and the cycle's cursor advance is made whatever the reaction
\* calls did.
C21_DurableWriteFirst ==
    /\ [](\A r \in reactions : Count(inboxFile, r[1]) >= 1)
    /\ [][ /\ InboxKept
           /\ StoredUnreacted =>
                 (lpc' = "batch" /\ messages' = messages /\ pos' = pos - 1)
           /\ (lpc = "batch" /\ pos = 0 /\ lpc' = "sleep" /\ messages # <<>>
                 /\ StrLess(last_ts, StrMax(TsOf(messages)))) =>
                     cursorFile' = StrMax(TsOf(messages))
         ]_vars

\* C21's case: the record of "5" is stored, its reaction call failed, and
\* the cycle went on to advance the cursor to "5".
C21_Witness ==
    /\ lpc = "sleep"
    /\ Count(inboxFile, <<5>>) = 1
    /\ <<<<5>>, "eyes">> \notin reactions
    /\ cursorFile = <<5>>

(***************************************************************************)
(* Properties of the Acknowledger's calls.                                 *)
(***************************************************************************)
\* The step is a pass of the for loop that called the provider for t and
\* got the acknowledgment confirmed (acknowledge_message returned True).
AckSucceeds(t) ==
    /\ apc = "acking"
    /\ pending # <<>>
    /\ Head(pending).timestamp = t
    /\ pending' = Tail(pending)
    /\ new_count' = new_count + 1

\* C22 (SpecAckCycle): the Acknowledger prevents duplicate reactions.  It
\* makes no successful acknowledgment call for a timestamp whose earlier
\* successful call it still knows of, in the ledger file or in the set the
\* running cycle is about to save; so, with no crash between a successful
\* call and the save, a timestamp gets at most one successful call.
C22_NoDuplicateAck ==
    [][ \A i \in 1..Len(pending) :
           AckSucceeds(pending[i].timestamp) =>
               /\ pending[i].timestamp \notin acknowledged
               /\ ~BagIn(pending[i].timestamp, ledgerFile)
      ]_vars

\* C23 (Spec): the ledger is saved once per cycle.  The ledger file is
\* written only by the step that ends a process_acknowledgments call, when
\* the call for every message of the pending batch has been made, never
\* with a message of the batch still to call for; and the step that writes
\* it returns from the cycle, so no cycle writes it twice.
C23_LedgerSavedOncePerCycle ==
    [][ ledgerFile' # ledgerFile =>
          /\ apc = "acking"
          /\ pending = <<>>
          /\ new_count > 0
          /\ apc' = "idle"
          /\ new_count' = 0
      ]_vars

\* C23's case: a cycle has made the calls for a batch of two messages, both
\* confirmed, and has not written the ledger yet.
C23_Witness ==
    /\ apc = "acking"
    /\ pending = <<>>
    /\ new_count = 2
    /\ Cardinality(acknowledged) = 2
    /\ ledgerFile = EmptyBag

\* C24 (SpecAckFault): the Acknowledger logs and continues.  An error
\* raised during a cycle of run_continuous, while it reads the inbox or the
\* ledger, calls the provider or saves the ledger, does not end the
\* process: from a cycle the loop goes only to its next step, or stops on
\* the interrupt.
C24_AckLogAndContinue ==
    [][ (apc \in {"idle", "acking"} /\ apc' # apc) =>
            apc' \in {"idle", "acking", "stopped"}
      ]_vars

(***************************************************************************)
(* Properties of the interrupt.                                            *)
(***************************************************************************)
\* C25 (SpecPoll): cancellation.  An interrupt that reaches the poll loop
\* or the Acknowledger loop in the middle of a cycle lets the cycle run to
\* its end, every message of the batch handled and the cursor or the ledger
\* saved, before the process exits: no loop stops with entries of its batch
\* still to handle or with the cycle's save still to make.
C25_CycleCompletesBeforeExit ==
    [][ /\ (lpc = "batch" /\ pos >= 1) => lpc' # "stopped"
        /\ (lpc = "batch" /\ messages # <<>>) => lpc' # "stopped"
        /\ (apc = "acking") => apc' # "stopped"
      ]_vars

(***************************************************************************)
(* Properties of the order of a batch.                                     *)
(***************************************************************************)
\* The timestamps of the batch entries the poll loop has already handled.
Handled == { messages[j].ts : j \in (pos + 1)..Len(messages) }

\* C26 (SpecListener): oldest-first processing.  A pass of the poll loop
\* that appends a record handles an entry that is not newer than any entry
\* still to handle, and appends it after the records of the entries handled
\* before it, all older; and the records one sync_history run appends are
\* in increasing timestamp order.
C26_OldestFirst ==
    [][ /\ (lpc = "batch" /\ Len(inboxFile') = Len(inboxFile) + 1) =>
              LET new == inboxFile'[Len(inboxFile')].timestamp IN
                  /\ new = messages[pos].ts
                  /\ \A j \in 1..(pos - 1) : NumVal(messages[j].ts) >= NumVal(new)
                  /\ \A i \in 1..Len(inboxFile) :
                        inboxFile[i].timestamp \in Handled =>
                            NumVal(inboxFile[i].timestamp) < NumVal(new)
        /\ (lpc = "stopped" /\ Len(inboxFile') > Len(inboxFile)) =>
              \A i, j \in (Len(inboxFile) + 1)..Len(inboxFile') :
                  i < j => NumVal(inboxFile'[i].timestamp) < NumVal(inboxFile'[j].timestamp)
      ]_vars

\* C26's case: a poll batch of two new messages has been handled; the
\* record of the older one comes first.
C26_Witness ==
    /\ lpc = "batch"
    /\ pos = 0
    /\ Len(messages) = 2
    /\ Len(inboxFile) = 2
    /\ inboxFile[1].timestamp = messages[2].ts
    /\ inboxFile[2].timestamp = messages[1].ts
    /\ NumVal(inboxFile[1].timestamp) < NumVal(inboxFile[2].timestamp)

(***************************************************************************)
(* Properties of the receipt per message.                                  *)
(***************************************************************************)
\* The step appends a record; the step also gets a receipt reaction set.
Appends == Len(inboxFile') > Len(inboxFile)
Receipts == reactions' # reactions

\* C27 (SpecListener): receipt acknowledgment per message.  Each ingestion
\* path that appends a record attempts the receipt reaction for it: whenever
\* a pass of the poll loop or a history sync can append a record, it can do
\* so with the reaction set (the call succeeding); and a step that appends
\* no record, its events rejected as bot-originated or known, sets no
\* reaction.
C27_ReceiptPerMessage ==
    /\ (ENABLED (PollStep /\ Appends)) => (ENABLED (PollStep /\ Appends /\ Receipts))
    /\ (ENABLED (sync_history /\ Appends)) => (ENABLED (sync_history /\ Appends /\ Receipts))
    /\ ~(ENABLED (PollStep /\ ~Appends /\ Receipts))
    /\ ~(ENABLED (sync_history /\ ~Appends /\ Receipts))

(***************************************************************************)
(* Properties of the files the Acknowledger shares.                        *)
(***************************************************************************)
\* The step is one of the Acknowledger: its loop moved, or the ledger or
\* the record of its calls changed.
AckActs == ackVars' # ackVars \/ ledgerFile' # ledgerFile \/ historyAck' # historyAck

\* C28 (SpecAckFrame): the Acknowledger is read-only on the Listener's
\* state.  No step of the Acknowledger changes the inbox file or the cursor
\* file; of the shared files it writes the ledger only, and nothing else
\* writes the ledger.
C28_AckReadOnly ==
    [][ /\ AckActs => (inboxFile' = inboxFile /\ cursorFile' = cursorFile)
        /\ ledgerFile' # ledgerFile => apc = "acking"
      ]_vars

\* C28's case: the Acknowledger has saved its ledger while the inbox holds
\* records and the cursor is set.
C28_Witness ==
    /\ ledgerFile # EmptyBag
    /\ inboxFile # <<>>
    /\ cursorFile # NoCursor
    /\ apc = "idle"

(***************************************************************************)
(* Properties of the file download helper.                                 *)
(***************************************************************************)
\* Message b is message a with nothing but read flags and download marks
\* changed: the same message, with the same file records in the same order.
SameMessage(a, b) ==
    /\ b.id = a.id /\ b.user = a.user /\ b.text = a.text /\ b.timestamp = a.timestamp
    /\ Len(b.files) = Len(a.files)
    /\ \A j \in 1..Len(a.files) : b.files[j].id = a.files[j].id

\* C29 (SpecDownload): file-attachment status.  No step removes a message
\* or a file record; a file record is marked downloaded, with its
\* local_path, only in a step in which download_file reported success for
\* its id, and the mark is never taken back; a download that failed leaves
\* the inbox unchanged; and the pending list the helper takes holds no file
\* record that is marked downloaded.
C29_FileStatus ==
    [][ /\ Len(inboxFile') = Len(inboxFile)
        /\ \A i \in 1..Len(inboxFile) :
              /\ SameMessage(inboxFile[i], inboxFile'[i])
              /\ \A j \in 1..Len(inboxFile[i].files) :
                    LET f == inboxFile[i].files[j]
                        g == inboxFile'[i].files[j]
                    IN  /\ f.downloaded => g.downloaded
                        /\ g.downloaded <=> g.local_path # NoPath
                        /\ (g.downloaded /\ ~f.downloaded) =>
                              /\ dl'.last = [id |-> f.id, ok |-> TRUE]
                              /\ g.local_path = LocalPath(f.id)
        /\ (dl' # dl /\ ~dl'.last.ok) => inboxFile' = inboxFile
        /\ (dl.pc = "idle" /\ dl'.pc = "running") =>
              \A k \in 1..Len(dl'.pending) :
                  /\ ~dl'.pending[k].file.downloaded
                  /\ \E i \in 1..Len(inboxFile) : \E j \in 1..Len(inboxFile[i].files) :
                        /\ inboxFile[i].files[j] = dl'.pending[k].file
                        /\ inboxFile[i].id = dl'.pending[k].message_id
      ]_vars

\* C29's case: the helper has gone through a pending list of two files;
\* the download of F1 succeeded and F1 is marked, the download of F2 failed
\* and F2 is as it was.
C29_Witness ==
    /\ dl.pc = "idle"
    /\ dl.last = [id |-> "F2", ok |-> FALSE]
    /\ \E i \in 1..Len(inboxFile) : \E j \in 1..Len(inboxFile[i].files) :
          inboxFile[i].files[j] = [id |-> "F1", downloaded |-> TRUE, local_path |-> LocalPath("F1")]
    /\ \E i \in 1..Len(inboxFile) : \E j \in 1..Len(inboxFile[i].files) :
          inboxFile[i].files[j] = FileRecord("F2")

(***************************************************************************)
(* Properties of the processes the Supervisor launched.                    *)
(***************************************************************************)
\* C30 (SpecSupervisor): no untracked children.  After any sequence of
\* start and stop commands, every process the Supervisor launched that is
\* still running has its handle in the handle file, so at most one Listener
\* and one Acknowledger it launched run at a time.
C30_NoUntrackedChildren ==
    /\ \A p \in sup.alive :
          \E role \in Roles : load_pids(sup.pidFile, role) = p
    /\ Cardinality(sup.alive) <= Cardinality(Roles)

=============================================================================
